---- MODULE Spec2Model ----
(***************************************************************************)
(* A model of the image-processing server of src/server.js: the            *)
(* conversion engine (convertImage with its resize stage and size-fitting  *)
(* loop), the preset table, the three conversion endpoints (single, batch, *)
(* URL), the analysis endpoint, and the temp store with its cleanup timer  *)
(* and the process events that sweep it.                                   *)
(*                                                                         *)
(* Specifications: SpecConvert and SpecResize (one convertImage call),     *)
(* Spec (the conversion endpoints), SpecAnalyze (the analysis endpoint),   *)
(* SpecStore (the temp store over time and the process events),            *)
(* SpecConcurrent (batch requests in flight side by side).                 *)
(***************************************************************************)
EXTENDS Integers, Sequences, FiniteSets, TLC

VARIABLES
    cv,         \* the running convertImage call (SpecConvert)
    pc,         \* position of the request handler
    req,        \* the request being handled
    opts,       \* convertOptions built by the handler
    res,        \* the response sent
    tempDir,    \* TEMP_DIR: the artifacts in the temp store
    results,    \* batch: the results array
    errors,     \* batch: the errors array
    totalProcessed, \* batch: the success counter
    settings,   \* batch: the parsed settings
    trace,      \* observation of the handler: calls made, files written
    now,        \* Date.now(), in minutes since the process started
    mtime,      \* the modification time of each file of TEMP_DIR
    timer,      \* when the cleanup interval fires next
    proc,       \* the process: starting, running, or exited with a code
    lastEvent,  \* the last process event a process.on handler ran for
    lastSweep,  \* the last run of cleanupTempFiles: when, what it removed and skipped
    calls       \* the batch requests in flight side by side, each with its locals

vars ==
    <<cv, pc, req, opts, res, tempDir, results, errors, totalProcessed, settings, trace,
      now, mtime, timer, proc, lastEvent, lastSweep, calls>>

\* the clock, the cleanup timer and the process state
clockVars == <<now, timer, proc, lastEvent, lastSweep>>

-----------------------------------------------------------------------------
(* JavaScript values                                                       *)

Undef == [t |-> "undefined"]
NaN == [t |-> "NaN"]
Str(s) == [t |-> "string", s |-> s]
Digits(d) == [t |-> "digits", d |-> d]         \* a string of decimal digits
Num(n) == [t |-> "number", n |-> n]
Bool(b) == [t |-> "boolean", b |-> b]
Null == [t |-> "null"]
Obj == [t |-> "object"]                        \* an object with no width/height

\* JavaScript truthiness, as used by `!x`, `x ? a : b`, `x || d`, `x && y`
Truthy(v) ==
    CASE v.t = "undefined" -> FALSE
      [] v.t = "null" -> FALSE
      [] v.t = "NaN" -> FALSE
      [] v.t = "string" -> v.s # ""
      [] v.t = "digits" -> Len(v.d) > 0
      [] v.t = "number" -> v.n # 0
      [] v.t = "boolean" -> v.b
      [] OTHER -> TRUE

\* x || d
OrElse(v, d) == IF Truthy(v) THEN v ELSE d

RECURSIVE DigitsValue(_)
DigitsValue(d) ==
    IF Len(d) = 0 THEN 0
    ELSE 10 * DigitsValue(SubSeq(d, 1, Len(d) - 1)) + d[Len(d)]

\* parseInt(v): the decimal value of a digit string, the number itself, NaN otherwise
parseInt(v) ==
    CASE v.t = "digits" -> IF Len(v.d) = 0 THEN NaN ELSE Num(DigitsValue(v.d))
      [] v.t = "number" -> v
      [] OTHER -> NaN

\* String.prototype.toLowerCase on the format names the model uses
LowerOf(s) ==
    CASE s = "JPEG" -> "jpeg"
      [] s = "JPG" -> "jpg"
      [] s = "PNG" -> "png"
      [] s = "WebP" -> "webp"
      [] s = "AVIF" -> "avif"
      [] s = "TIFF" -> "tiff"
      [] s = "GIF" -> "gif"
      [] OTHER -> s

IsString(v) == v.t \in {"string", "digits"}

-----------------------------------------------------------------------------
(* The codec (sharp)                                                       *)

BytesPerKB == 1024
DefaultQuality == 80
maxAttempts == 5
QualityStep == 15
QualityFloor == 10
MinQuality == 1
MaxQuality == 100
TEN_MINUTES == 10       \* retention, in minutes
SweepInterval == 5      \* period of the cleanup timer, in minutes

\* An input buffer: whether sharp can decode it, and how large its encodings are
Images ==
    { [id |-> "empty", decodable |-> FALSE, minBytes |-> 0, perQ |-> 0,
       length |-> 0, width |-> 0, height |-> 0, format |-> "none"],
      [id |-> "corrupt", decodable |-> FALSE, minBytes |-> 0, perQ |-> 0,
       length |-> 700, width |-> 0, height |-> 0, format |-> "none"],
      [id |-> "small", decodable |-> TRUE, minBytes |-> 200, perQ |-> 5,
       length |-> 900, width |-> 400, height |-> 300, format |-> "png"],
      [id |-> "big", decodable |-> TRUE, minBytes |-> 500, perQ |-> 100,
       length |-> 9000, width |-> 2000, height |-> 1000, format |-> "jpeg"],
      [id |-> "huge", decodable |-> TRUE, minBytes |-> 5000, perQ |-> 100,
       length |-> 20000, width |-> 1000, height |-> 3000, format |-> "jpeg"] }

\* The encoders validate their quality option: an integer in 1..100
QualityAccepted(q) == q.t = "number" /\ q.n \in MinQuality..MaxQuality

\* Length of the buffer the encoder produces for an image at a quality
EncodedLength(img, q) == img.minBytes + img.perQ * q

\* processor.<format>({quality}).toBuffer(): a buffer, or an error
Encode(img, fmt, q) ==
    IF ~QualityAccepted(q) THEN [ok |-> FALSE, error |-> "EncodeError"]
    ELSE IF ~img.decodable THEN [ok |-> FALSE, error |-> "DecodeError"]
    ELSE [ok |-> TRUE,
          buffer |-> [length |-> EncodedLength(img, q.n), format |-> fmt,
                      quality |-> q.n, of |-> img.id,
                      width |-> img.width, height |-> img.height]]

NoBuffer ==
    [length |-> 0, format |-> "none", quality |-> 0, of |-> "none",
     width |-> 0, height |-> 0]

\* a / b rounded to the nearest integer
RoundDiv(a, b) == (2 * a + b) \div (2 * b)

\* sharp accepts a resize dimension that is absent or a positive integer
DimAccepted(v) == v.t \in {"undefined", "null"} \/ (v.t = "number" /\ v.n > 0)

\* a raster has at least one pixel on each axis
AtLeastOne(n) == IF n < 1 THEN 1 ELSE n

\* processor.resize({width, height, fit, withoutEnlargement}): the raster's
\* dimensions after the resize. 'inside' keeps the aspect ratio and fits the
\* raster in the box, 'fill' stretches it to the box; with withoutEnlargement
\* no axis is scaled up
SharpResize(img, w, h, fit, withoutEnlargement) ==
    LET hasW == w.t = "number"
        hasH == h.t = "number"
        byW == [img EXCEPT !.width = w.n,
                           !.height = AtLeastOne(RoundDiv(img.height * w.n, img.width))]
        byH == [img EXCEPT !.height = h.n,
                           !.width = AtLeastOne(RoundDiv(img.width * h.n, img.height))]
        keepW == withoutEnlargement /\ w.n >= img.width
        keepH == withoutEnlargement /\ h.n >= img.height
    IN  IF ~img.decodable THEN img
        ELSE IF hasW /\ hasH /\ fit = "fill"
        THEN [img EXCEPT !.width = IF keepW THEN img.width ELSE w.n,
                         !.height = IF keepH THEN img.height ELSE h.n]
        ELSE IF hasW /\ hasH
        THEN IF img.width * h.n >= img.height * w.n
             THEN (IF keepW THEN img ELSE byW)
             ELSE (IF keepH THEN img ELSE byH)
        ELSE IF hasW THEN (IF keepW THEN img ELSE byW)
        ELSE IF hasH THEN (IF keepH THEN img ELSE byH)
        ELSE img

\* lines 135-139: the resize as convertImage asks for it, withoutEnlargement: true
Resized(img, w, h, fit) == SharpResize(img, w, h, fit, TRUE)

-----------------------------------------------------------------------------
(* convertImage                                                            *)

\* the case labels of the first switch (lines 144-173)
EncodeCases == {"jpeg", "jpg", "png", "webp", "avif", "tiff"}
\* the case labels of the switch inside the size-fitting loop (lines 185-199)
ReencodeCases == {"jpeg", "jpg", "png", "webp", "avif"}

\* the codec each case label selects
CodecOf(label) == IF label = "jpg" THEN "jpeg" ELSE label

\* state of a convertImage call at entry
CvStart(input, options) ==
    [phase |-> "called", input |-> input, raster |-> input, options |-> options,
     outputBuffer |-> NoBuffer, quality |-> 0, attempts |-> 0,
     encodes |-> <<>>, fitted |-> FALSE, error |-> "none"]

CvThrow(c, e) == [c EXCEPT !.phase = "thrown", !.error = e]

\* mutant: the resize is asked for without withoutEnlargement
CvResize_Enlarges(c) ==
    LET o == c.options
        fit == IF o.maintainAspectRatio # Bool(FALSE) THEN "inside" ELSE "fill"
    IN  IF c.input.length = 0 THEN CvThrow(c, "EmptyInput")
        ELSE IF ~(Truthy(o.width) \/ Truthy(o.height)) THEN [c EXCEPT !.phase = "resized"]
        ELSE IF ~(DimAccepted(o.width) /\ DimAccepted(o.height))
        THEN CvThrow(c, "ResizeError")
        ELSE [c EXCEPT !.phase = "resized",
                       !.raster = SharpResize(c.input, o.width, o.height, fit, FALSE)]

\* lines 129-140: sharp(inputBuffer), which refuses an empty buffer, then the
\* resize when a width or a height is given
CvResize(c) ==
    LET o == c.options
        fit == IF o.maintainAspectRatio # Bool(FALSE) THEN "inside" ELSE "fill"
    IN  IF c.input.length = 0 THEN CvThrow(c, "EmptyInput")
        ELSE IF ~(Truthy(o.width) \/ Truthy(o.height)) THEN [c EXCEPT !.phase = "resized"]
        ELSE IF ~(DimAccepted(o.width) /\ DimAccepted(o.height))
        THEN CvThrow(c, "ResizeError")
        ELSE [c EXCEPT !.phase = "resized",
                       !.raster = Resized(c.input, o.width, o.height, fit)]

\* mutant: the switch has no default branch, an unknown format falls through
CvInitialEncode_NoDefault(c) ==
    IF ~IsString(c.options.outputFormat) THEN CvThrow(c, "TypeError")
    ELSE LET label == LowerOf(c.options.outputFormat.s)
             q == OrElse(c.options.quality, Num(DefaultQuality))
             e == Encode(c.raster, CodecOf(label), q)
         IN  IF label \notin {"jpeg", "jpg", "png", "webp", "avif", "tiff"}
             THEN [c EXCEPT !.phase = "encoded"]
             ELSE IF ~e.ok THEN CvThrow(c, e.error)
             ELSE [c EXCEPT !.phase = "encoded", !.outputBuffer = e.buffer,
                            !.encodes = <<q.n>>]

\* lines 144-173: dispatch on the output format and encode at options.quality || 80
CvInitialEncode(c) ==
    IF ~IsString(c.options.outputFormat) THEN CvThrow(c, "TypeError")
    ELSE LET label == LowerOf(c.options.outputFormat.s)
             q == OrElse(c.options.quality, Num(DefaultQuality))
             e == Encode(c.raster, CodecOf(label), q)
         IN  IF label \notin EncodeCases THEN CvThrow(c, "UnsupportedFormat")
             ELSE IF ~e.ok THEN CvThrow(c, e.error)
             ELSE [c EXCEPT !.phase = "encoded", !.outputBuffer = e.buffer,
                            !.encodes = <<q.n>>]

\* target size in bytes (options.targetSizeKB * 1024)
TargetBytes(c) == c.options.targetSizeKB.n * BytesPerKB

\* line 176: the guard of the size-fitting stage
CvWantsFit(c) ==
    /\ Truthy(c.options.targetSizeKB)
    /\ c.outputBuffer.length > TargetBytes(c)

\* lines 176-179: enter the size-fitting stage, or return the buffer
CvEnterFit(c) ==
    IF CvWantsFit(c)
    THEN [c EXCEPT !.phase = "fitting", !.fitted = TRUE, !.attempts = 0,
                   !.quality = OrElse(c.options.quality, Num(DefaultQuality)).n]
    ELSE [c EXCEPT !.phase = "returned"]

\* mutant: the loop does not bound its attempts
CvLoopCond_NoAttemptBound(c) ==
    /\ c.outputBuffer.length > c.options.targetSizeKB.n * 1024
    /\ c.quality > 10

\* line 181: the loop condition
CvLoopCond(c) ==
    /\ c.outputBuffer.length > TargetBytes(c)
    /\ c.quality > QualityFloor
    /\ c.attempts < maxAttempts

\* lines 182-199: one iteration of the loop
CvFitIter(c) ==
    LET q == c.quality - QualityStep
        label == LowerOf(c.options.outputFormat.s)
        e == Encode(c.raster, CodecOf(label), Num(q))
        d == [c EXCEPT !.quality = q, !.attempts = c.attempts + 1]
    IN  IF label \notin ReencodeCases THEN d
        ELSE IF ~e.ok THEN CvThrow([d EXCEPT !.encodes = Append(c.encodes, q)], e.error)
        ELSE [d EXCEPT !.outputBuffer = e.buffer, !.encodes = Append(c.encodes, q)]

\* one step of convertImage
CvStep(c) ==
    CASE c.phase = "called" -> CvResize(c)
      [] c.phase = "resized" -> CvInitialEncode(c)
      [] c.phase = "encoded" -> CvEnterFit(c)
      [] c.phase = "fitting" ->
            IF CvLoopCond(c) THEN CvFitIter(c) ELSE [c EXCEPT !.phase = "returned"]
      [] OTHER -> c

CvDone(c) == c.phase \in {"returned", "thrown"}

\* the call run to its end (each intermediate state is bound once)
RECURSIVE CvRun(_)
CvRun(c) ==
    IF CvDone(c) THEN c
    ELSE CHOOSE r \in {CvRun(d) : d \in {CvStep(c)}} : TRUE

\* convertImage(inputBuffer, options): the finished call
convertImage(input, options) == CvRun(CvStart(input, options))

-----------------------------------------------------------------------------
(* Presets, getImageInfo, saveToTemp                                       *)

Size(w, h) == [t |-> "size", width |-> Num(w), height |-> Num(h)]

PresetNames ==
    {"square-small", "square-large", "portrait-small", "portrait-large",
     "landscape-small", "landscape-large", "facebook", "instagram", "twitter",
     "linkedin"}

\* property names every JavaScript object inherits from Object.prototype
InheritedNames == {"constructor", "toString", "valueOf", "hasOwnProperty"}

\* PRESET_SIZES[name]: the table entry, an inherited property, or undefined
PRESET_SIZES(name) ==
    CASE name = "square-small" -> Size(512, 512)
      [] name = "square-large" -> Size(1024, 1024)
      [] name = "portrait-small" -> Size(512, 768)
      [] name = "portrait-large" -> Size(768, 1024)
      [] name = "landscape-small" -> Size(768, 512)
      [] name = "landscape-large" -> Size(1024, 768)
      [] name = "facebook" -> Size(1200, 630)
      [] name = "instagram" -> Size(1080, 1080)
      [] name = "twitter" -> Size(1200, 675)
      [] name = "linkedin" -> Size(1200, 627)
      [] name \in InheritedNames -> Obj
      [] OTHER -> Undef

PresetEntry(preset) == IF preset.t = "string" THEN PRESET_SIZES(preset.s) ELSE Undef

\* preset.width, preset.height of whatever the lookup gave
WidthOf(e) == IF e.t = "size" THEN e.width ELSE Undef
HeightOf(e) == IF e.t = "size" THEN e.height ELSE Undef

\* mutant: the preset only fills in the dimensions the request left out
ApplyPreset_KeepSupplied(options, preset) ==
    IF Truthy(preset) /\ Truthy(PresetEntry(preset))
    THEN [options EXCEPT
            !.width = IF Truthy(options.width) THEN options.width
                      ELSE WidthOf(PresetEntry(preset)),
            !.height = IF Truthy(options.height) THEN options.height
                       ELSE HeightOf(PresetEntry(preset))]
    ELSE options

\* lines 302-307, 402-408, 641-647: if (preset && PRESET_SIZES[preset]) overwrite
\* width and height
ApplyPreset(options, preset) ==
    IF Truthy(preset) /\ Truthy(PresetEntry(preset))
    THEN [options EXCEPT !.width = WidthOf(PresetEntry(preset)),
                         !.height = HeightOf(PresetEntry(preset))]
    ELSE options

\* getImageInfo(buffer) on an uploaded or fetched buffer (lines 77-91)
getImageInfo(img) ==
    IF img.decodable
    THEN [ok |-> TRUE, width |-> img.width, height |-> img.height,
          format |-> img.format, size |-> img.length]
    ELSE [ok |-> FALSE, width |-> 0, height |-> 0, format |-> "none", size |-> 0]

\* Number((a / b).toFixed(2)), in hundredths
Ratio100(a, b) == RoundDiv(100 * a, b)

\* uuidv4(): a name no file of the store has
FreshName(dir) == CHOOSE n \in 1..(Cardinality(dir) + 1) : n \notin dir

-----------------------------------------------------------------------------
(* The conversion engine on its own: one convertImage call, step by step   *)

\* the values convertImage is called with
FormatValues ==
    {Str(f) : f \in {"jpeg", "jpg", "png", "webp", "avif", "tiff", "gif", "JPEG", ""}}
QualityValues == {Num(q) : q \in 0..(MaxQuality + 1)} \cup {NaN}
TargetValues == {Undef, Num(1), Num(4)}
Boxes ==
    { [width |-> Undef, height |-> Undef, maintainAspectRatio |-> Bool(TRUE)],
      [width |-> Num(300), height |-> Undef, maintainAspectRatio |-> Bool(TRUE)],
      [width |-> Num(300), height |-> Num(200), maintainAspectRatio |-> Bool(FALSE)],
      [width |-> NaN, height |-> Num(200), maintainAspectRatio |-> Bool(TRUE)] }

Options(f, q, b, t) ==
    [outputFormat |-> f, quality |-> q, width |-> b.width, height |-> b.height,
     maintainAspectRatio |-> b.maintainAspectRatio, targetSizeKB |-> t]

NoCall == [phase |-> "none"]
NoReq == [endpoint |-> "none"]
NoOpts == [outputFormat |-> Undef]
NoRes == [status |-> 0]
NoTrace == [storeBefore |-> {}, decodes |-> 0, converts |-> 0, written |-> {}, items |-> <<>>]

\* no process event yet, no run of the sweep yet, no concurrent batch request
NoEvent == [event |-> "none"]
NoSweep == [n |-> 0, t |-> 0, removed |-> {}, skipped |-> {}]
NoCalls == [h \in {} |-> 0]

HandlerIdle ==
    /\ calls = NoCalls
    /\ pc = "idle"
    /\ req = NoReq
    /\ opts = NoOpts
    /\ res = NoRes
    /\ tempDir = {}
    /\ results = <<>>
    /\ errors = <<>>
    /\ totalProcessed = 0
    /\ settings = Undef
    /\ trace = NoTrace

handlerVars ==
    <<pc, req, opts, res, tempDir, results, errors, totalProcessed, settings, trace,
      now, mtime, timer, proc, lastEvent, lastSweep, calls>>

\* fs.writeFile at the current time: the files written get the time as mtime
Stamp(times, dir, written, t) ==
    [n \in dir \cup written |-> IF n \in written THEN t ELSE times[n]]

\* the process is serving, the temp store is empty, no time has passed yet
StoreAtRest ==
    /\ now = 0
    /\ mtime = [n \in {} |-> 0]
    /\ timer = SweepInterval
    /\ proc = "running"
    /\ lastEvent = NoEvent
    /\ lastSweep = NoSweep

InitConvert ==
    /\ HandlerIdle
    /\ StoreAtRest
    /\ \E i \in Images, f \in FormatValues, q \in QualityValues, b \in Boxes,
          t \in TargetValues : cv = CvStart(i, Options(f, q, b, t))

\* lines 131-140
ConvResize ==
    /\ cv.phase = "called"
    /\ cv' = CvResize(cv)
    /\ UNCHANGED handlerVars

\* lines 143-173
ConvEncode ==
    /\ cv.phase = "resized"
    /\ cv' = CvInitialEncode(cv)
    /\ UNCHANGED handlerVars

\* lines 176-179
ConvEnterFit ==
    /\ cv.phase = "encoded"
    /\ cv' = CvEnterFit(cv)
    /\ UNCHANGED handlerVars

\* lines 181-200: the loop condition holds, one iteration runs
ConvIterate ==
    /\ cv.phase = "fitting"
    /\ CvLoopCond(cv)
    /\ cv' = CvFitIter(cv)
    /\ UNCHANGED handlerVars

\* line 181 fails, line 203 returns
ConvExit ==
    /\ cv.phase = "fitting"
    /\ ~CvLoopCond(cv)
    /\ cv' = [cv EXCEPT !.phase = "returned"]
    /\ UNCHANGED handlerVars

NextConvert == ConvResize \/ ConvEncode \/ ConvEnterFit \/ ConvIterate \/ ConvExit

SpecConvert == InitConvert /\ [][NextConvert]_vars

\* ---- the resize stage over source sizes and boxes ----

\* widths and heights of the source image
SourceDims == {7, 300, 400, 1000}
\* options.width, options.height
ResizeDims == {Undef} \cup {Num(n) : n \in {0, 1, 3, 300, 301, 1000, 2000}}
\* options.maintainAspectRatio
AspectValues == {Undef, Bool(TRUE), Bool(FALSE)}

\* a decodable input buffer of the given dimensions
Source(w, h) ==
    [id |-> "source", decodable |-> TRUE, minBytes |-> 200, perQ |-> 20,
     length |-> 5000, width |-> w, height |-> h, format |-> "jpeg"]

InitResize ==
    /\ HandlerIdle
    /\ StoreAtRest
    /\ \E sw \in SourceDims, sh \in SourceDims, w \in ResizeDims, h \in ResizeDims,
          m \in AspectValues, t \in {Undef, Num(1)} :
          cv = CvStart(Source(sw, sh),
                       Options(Str("webp"), Num(DefaultQuality),
                               [width |-> w, height |-> h, maintainAspectRatio |-> m], t))

SpecResize == InitResize /\ [][NextConvert]_vars

-----------------------------------------------------------------------------
(* Claims about the conversion engine (checked under SpecConvert)          *)

SupportedEncodings == {"jpeg", "png", "webp", "avif", "tiff"}
AcceptedLabels == {"jpeg", "jpg", "png", "webp", "avif", "tiff"}

CvFormat == cv.options.outputFormat.s
CvRequestedQuality == OrElse(cv.options.quality, Num(DefaultQuality)).n
CvResizeRejected ==
    /\ Truthy(cv.options.width) \/ Truthy(cv.options.height)
    /\ ~(DimAccepted(cv.options.width) /\ DimAccepted(cv.options.height))

CvTargetUnreachable ==
    /\ Truthy(cv.options.targetSizeKB)
    /\ cv.raster.decodable
    /\ EncodedLength(cv.raster, MinQuality) > TargetBytes(cv)

\* C7: size-fitting failure is silent: for a requested quality in 1..100, a
\* supported format and a target no quality can meet, the call never throws
\* once the size-fitting loop has been entered, and what it returns is a
\* non-empty buffer.
C7_SilentFit ==
    (/\ cv.phase \in {"fitting", "returned", "thrown"}
     /\ cv.options.quality.t = "number"
     /\ cv.options.quality.n \in MinQuality..MaxQuality
     /\ LowerOf(CvFormat) \in AcceptedLabels
     /\ CvTargetUnreachable
     /\ cv.fitted)
        => /\ cv.phase # "thrown"
           /\ cv.outputBuffer.length > 0

\* C8: in the size-fitting loop attempts <= 5 and quality = requested quality
\* - 15 * attempts at every point, at most 5 re-encodes are made, and when the
\* loop is left the output fits the target, or quality <= 10, or attempts = 5.
C8_LoopBounded ==
    cv.fitted
        => /\ cv.attempts <= 5
           /\ cv.quality = CvRequestedQuality - 15 * cv.attempts
           /\ Len(cv.encodes) <= 1 + 5
           /\ CvDone(cv)
                 => \/ cv.outputBuffer.length <= cv.options.targetSizeKB.n * 1024
                    \/ cv.quality <= 10
                    \/ cv.attempts = 5

\* C8 witness: the loop was left after its fifth attempt with the target unmet
C8_Witness ==
    /\ cv.fitted
    /\ cv.phase = "returned"
    /\ cv.attempts = 5
    /\ cv.quality > 10
    /\ cv.outputBuffer.length > cv.options.targetSizeKB.n * 1024

\* the box the call asks for, and whether the resize stage ran on it
CvBoxWidth == cv.options.width
CvBoxHeight == cv.options.height
CvResizeAsked == Truthy(CvBoxWidth) \/ Truthy(CvBoxHeight)

\* C12 (SpecResize): with maintainAspectRatio true or absent and a width and/or
\* a height given, the converted image's width and height exceed neither the
\* requested box nor the source image's width and height.
C12_InsideBoxNoUpscale ==
    (/\ cv.phase = "returned"
     /\ cv.options.maintainAspectRatio \in {Undef, Bool(TRUE)}
     /\ CvResizeAsked)
        => /\ CvBoxWidth.t = "number" => cv.outputBuffer.width <= CvBoxWidth.n
           /\ CvBoxHeight.t = "number" => cv.outputBuffer.height <= CvBoxHeight.n
           /\ cv.outputBuffer.width <= cv.input.width
           /\ cv.outputBuffer.height <= cv.input.height

\* C12 witness: a 400x300 source asked into a 301x2000 box, taller than the
\* source, came out 301x226
C12_Witness ==
    /\ cv.phase = "returned"
    /\ cv.options.maintainAspectRatio = Undef
    /\ cv.input.width = 400 /\ cv.input.height = 300
    /\ CvBoxWidth = Num(301) /\ CvBoxHeight = Num(2000)
    /\ cv.outputBuffer.width = 301 /\ cv.outputBuffer.height = 226

\* C13 (SpecResize): with maintainAspectRatio false and both width and height
\* given, the converted image has exactly the requested width and height, for
\* every source size, requested dimensions larger than the source included.
C13_FillExact ==
    (/\ cv.phase = "returned"
     /\ cv.options.maintainAspectRatio = Bool(FALSE)
     /\ CvBoxWidth.t = "number" /\ CvBoxWidth.n > 0
     /\ CvBoxHeight.t = "number" /\ CvBoxHeight.n > 0)
        => /\ cv.outputBuffer.width = CvBoxWidth.n
           /\ cv.outputBuffer.height = CvBoxHeight.n

\* C19: in every iteration the size-fitting loop executes, for each supported
\* output format, the output buffer is replaced by a fresh encode of the resized
\* raster at the lowered quality: no iteration lowers the quality and counts an
\* attempt while leaving the buffer as it was.
C19_EveryIterationReencodes ==
    (cv.fitted /\ LowerOf(CvFormat) \in AcceptedLabels)
        => /\ Len(cv.encodes) = 1 + cv.attempts
           /\ (cv.attempts > 0 /\ cv.phase # "thrown")
                 => /\ cv.outputBuffer.quality = cv.quality
                    /\ cv.outputBuffer.width = cv.raster.width
                    /\ cv.outputBuffer.height = cv.raster.height

\* C9: every re-encode made inside the size-fitting loop uses a quality
\* strictly greater than 10, for every requested quality in 1..100.
C9_ReencodeAboveFloor ==
    (cv.options.quality.t = "number" /\ cv.options.quality.n \in MinQuality..MaxQuality)
        => \A k \in 2..Len(cv.encodes) : cv.encodes[k] > 10

-----------------------------------------------------------------------------
(* The HTTP endpoints                                                      *)

MaxFiles == 2       \* files in one batch request
MaxStored == 2      \* requests are taken while the store holds fewer files

NoFile == [id |-> "none"]
Uploads == {i \in Images : i.id \in {"corrupt", "small", "huge"}}

\* multipart form fields: strings, or absent
FormFormats == {Undef, Str(""), Str("jpeg"), Str("JPG"), Str("tiff"), Str("gif")}
FormQualities == {Undef, Digits(<<2, 5>>), Digits(<<1, 1>>)}
FormDims == {Undef, Digits(<<3, 0, 0>>)}
FormAspects == {Undef, Str("false")}
FormTargets == {Undef, Digits(<<1>>)}
FormPresets == {Undef, Str("unknown"), Str("constructor")} \cup {Str(n) : n \in PresetNames}

\* request bodies: every combination of the fields without a preset, and every
\* preset name with every combination of the fields a preset can interact with
Bodies(formats, qualities, dims, aspects, targets, presetFormats) ==
    [outputFormat : formats, quality : qualities, width : dims, height : dims,
     maintainAspectRatio : aspects, targetSizeKB : targets, preset : {Undef}]
    \cup
    [outputFormat : presetFormats, quality : qualities, width : dims, height : dims,
     maintainAspectRatio : aspects, targetSizeKB : {Undef},
     preset : FormPresets \ {Undef}]

FormBodies ==
    Bodies(FormFormats, FormQualities, FormDims, FormAspects, FormTargets, {Str("jpeg")})

ToLowerCase(v) == Str(LowerOf(v.s))

\* res.status(code).json({error})
ErrorResponse(code, msg) == [status |-> code, error |-> msg]

\* the 200 body of a conversion (lines 317-335, 658-676)
ConversionResult(info, c, name, options) ==
    [status |-> 200,
     originalFile |-> [size |-> info.size, width |-> info.width, height |-> info.height],
     convertedFile |-> [name |-> name, size |-> c.outputBuffer.length,
                        width |-> c.outputBuffer.width, height |-> c.outputBuffer.height],
     compressionRatio |-> Ratio100(info.size, c.outputBuffer.length),
     finalQuality |-> options.quality]

\* what a handler run leaves behind: the response, the options it built, the
\* convertImage call it made, the file it wrote, and what it invoked
Outcome(r, o, c, w, nd, nc) ==
    [res |-> r, opts |-> o, cv |-> c, written |-> w, decodes |-> nd, converts |-> nc]

\* lines 293-300: convertOptions of the single-conversion endpoint
SingleOptions(b) ==
    [outputFormat |-> ToLowerCase(b.outputFormat),
     quality |-> IF Truthy(b.quality) THEN parseInt(b.quality) ELSE Num(DefaultQuality),
     width |-> IF Truthy(b.width) THEN parseInt(b.width) ELSE Undef,
     height |-> IF Truthy(b.height) THEN parseInt(b.height) ELSE Undef,
     maintainAspectRatio |-> Bool(b.maintainAspectRatio # Str("false")),
     targetSizeKB |-> IF Truthy(b.targetSizeKB) THEN parseInt(b.targetSizeKB) ELSE Undef]

\* lines 309-343: convert, save, answer; any throw becomes a 500
ConvertAndSave(img, info, options, dir, diskOk) ==
    LET name == FreshName(dir)
        After(c) ==
            IF c.phase = "thrown"
            THEN Outcome(ErrorResponse(500, c.error), options, c, {}, 1, 1)
            ELSE IF ~diskOk
            THEN Outcome(ErrorResponse(500, "StorageError"), options, c, {}, 1, 1)
            ELSE Outcome(ConversionResult(info, c, name, options), options, c, {name}, 1, 1)
    IN  CHOOSE o \in {After(c) : c \in {convertImage(img, options)}} : TRUE

\* POST /api/convert-image (lines 273-344)
SingleHandler(r, dir, diskOk) ==
    LET b == r.body
        info == getImageInfo(r.file)
        options == ApplyPreset(SingleOptions(b), b.preset)
    IN  IF r.file = NoFile
        THEN Outcome(ErrorResponse(400, "No file provided"), NoOpts, NoCall, {}, 0, 0)
        ELSE IF ~Truthy(b.outputFormat)
        THEN Outcome(ErrorResponse(400, "Output format is required"), NoOpts, NoCall, {}, 0, 0)
        ELSE IF ~info.ok
        THEN Outcome(ErrorResponse(500, "DecodeError"), NoOpts, NoCall, {}, 1, 0)
        ELSE ConvertAndSave(r.file, info, options, dir, diskOk)

\* the handler's outcome becomes the state
Settle(o) ==
    /\ res' = o.res
    /\ opts' = o.opts
    /\ cv' = o.cv
    /\ tempDir' = tempDir \cup o.written
    /\ mtime' = Stamp(mtime, tempDir, o.written, now)
    /\ trace' = [trace EXCEPT !.written = o.written, !.decodes = o.decodes,
                              !.converts = o.converts]
    /\ pc' = "responded"
    /\ UNCHANGED <<clockVars, calls>>

Init ==
    /\ HandlerIdle
    /\ StoreAtRest
    /\ cv = NoCall

\* the server takes a request
CanAccept ==
    /\ pc = "idle"
    /\ Cardinality(tempDir) < MaxStored

\* a request reaches an endpoint
Accept(r, at) ==
    /\ req' = r
    /\ pc' = at
    /\ trace' = [NoTrace EXCEPT !.storeBefore = tempDir]
    /\ UNCHANGED <<cv, opts, res, tempDir, results, errors, totalProcessed, settings>>
    /\ UNCHANGED <<mtime, clockVars, calls>>

ReceiveSingle ==
    /\ CanAccept
    /\ \E f \in Uploads \cup {NoFile}, b \in FormBodies :
          Accept([endpoint |-> "single", file |-> f, body |-> b], "single")

ConvertImageEndpoint ==
    /\ pc = "single"
    /\ \E diskOk \in BOOLEAN :
          \E o \in {SingleHandler(req, tempDir, diskOk)} : Settle(o)
    /\ UNCHANGED <<req, results, errors, totalProcessed, settings>>

\* ---- POST /api/convert-from-url ----

UrlFormats == {Undef, Str("jpeg"), Str("JPG"), Str("gif"), Num(5)}
UrlQualities == {Undef, Num(25), Digits(<<1, 1>>)}
UrlDims == {Undef, Num(300)}
UrlAspects == {Undef, Bool(FALSE)}
UrlTargets == {Undef, Num(1)}
UrlBodies == Bodies(UrlFormats, UrlQualities, UrlDims, UrlAspects, UrlTargets, {Str("jpeg")})
ImageUrls == {Undef, Str("http://host/image")}

\* what axios.get finds at the URL: nothing (error, timeout, over 10MB) or bytes
Unreachable == [id |-> "unreachable"]

\* images of formats the uploads of the model do not have: an SVG drawing and a
\* PPM bitmap, both of which sharp decodes
Vector ==
    [id |-> "vector", decodable |-> TRUE, minBytes |-> 200, perQ |-> 5,
     length |-> 600, width |-> 100, height |-> 100, format |-> "svg"]
Pixmap ==
    [id |-> "pixmap", decodable |-> TRUE, minBytes |-> 200, perQ |-> 5,
     length |-> 800, width |-> 100, height |-> 100, format |-> "ppm"]

Remotes == Uploads \cup {Vector, Pixmap, Unreachable}

\* lines 38-42: the MIME types the upload filter lets through
allowedTypes ==
    {"image/jpeg", "image/jpg", "image/png", "image/webp", "image/gif", "image/bmp",
     "image/tiff", "image/svg+xml", "image/x-icon", "image/vnd.microsoft.icon",
     "image/avif"}

\* lines 37-49: upload.fileFilter, whether a file of that MIME type is accepted
fileFilter(mimetype) == mimetype \in allowedTypes

\* line 624
allowedFormats == {"jpeg", "jpg", "png", "webp", "gif", "bmp", "tiff", "avif"}

\* lines 632-639: convertOptions of the URL endpoint
UrlOptions(b) ==
    [outputFormat |-> ToLowerCase(b.outputFormat),
     quality |-> IF Truthy(b.quality) THEN parseInt(b.quality) ELSE Num(DefaultQuality),
     width |-> IF Truthy(b.width) THEN parseInt(b.width) ELSE Undef,
     height |-> IF Truthy(b.height) THEN parseInt(b.height) ELSE Undef,
     maintainAspectRatio |-> Bool(b.maintainAspectRatio # Bool(FALSE)),
     targetSizeKB |-> IF Truthy(b.targetSizeKB) THEN parseInt(b.targetSizeKB) ELSE Undef]

\* mutant: the download is not wrapped in its own try/catch, its failure reaches
\* the catch of the handler
UrlHandler_FetchUnguarded(r, dir, diskOk) ==
    LET b == r.body
        info == getImageInfo(r.remote)
        options == ApplyPreset(UrlOptions(b), b.preset)
    IN  IF ~Truthy(r.imageUrl)
        THEN Outcome(ErrorResponse(400, "imageUrl is required"), NoOpts, NoCall, {}, 0, 0)
        ELSE IF ~Truthy(b.outputFormat)
        THEN Outcome(ErrorResponse(400, "outputFormat is required"), NoOpts, NoCall, {}, 0, 0)
        ELSE IF r.remote = Unreachable
        THEN Outcome(ErrorResponse(500, "Failed to download image from URL"),
                     NoOpts, NoCall, {}, 0, 0)
        ELSE IF ~info.ok
        THEN Outcome(ErrorResponse(500, "DecodeError"), NoOpts, NoCall, {}, 1, 0)
        ELSE IF LowerOf(info.format) \notin allowedFormats
        THEN Outcome(ErrorResponse(400, "Unsupported image format"), NoOpts, NoCall, {}, 1, 0)
        ELSE IF ~IsString(b.outputFormat)
        THEN Outcome(ErrorResponse(500, "TypeError"), NoOpts, NoCall, {}, 1, 0)
        ELSE ConvertAndSave(r.remote, info, options, dir, diskOk)

\* POST /api/convert-from-url (lines 584-685)
UrlHandler(r, dir, diskOk) ==
    LET b == r.body
        info == getImageInfo(r.remote)
        options == ApplyPreset(UrlOptions(b), b.preset)
    IN  IF ~Truthy(r.imageUrl)
        THEN Outcome(ErrorResponse(400, "imageUrl is required"), NoOpts, NoCall, {}, 0, 0)
        ELSE IF ~Truthy(b.outputFormat)
        THEN Outcome(ErrorResponse(400, "outputFormat is required"), NoOpts, NoCall, {}, 0, 0)
        ELSE IF r.remote = Unreachable
        THEN Outcome(ErrorResponse(400, "Failed to download image from URL"),
                     NoOpts, NoCall, {}, 0, 0)
        ELSE IF ~info.ok
        THEN Outcome(ErrorResponse(500, "DecodeError"), NoOpts, NoCall, {}, 1, 0)
        ELSE IF LowerOf(info.format) \notin allowedFormats
        THEN Outcome(ErrorResponse(400, "Unsupported image format"), NoOpts, NoCall, {}, 1, 0)
        ELSE IF ~IsString(b.outputFormat)
        THEN Outcome(ErrorResponse(500, "TypeError"), NoOpts, NoCall, {}, 1, 0)
        ELSE ConvertAndSave(r.remote, info, options, dir, diskOk)

ReceiveUrl ==
    /\ CanAccept
    /\ \E u \in ImageUrls, m \in Remotes, b \in UrlBodies :
          Accept([endpoint |-> "url", imageUrl |-> u, remote |-> m, body |-> b], "url")

ConvertFromUrlEndpoint ==
    /\ pc = "url"
    /\ \E diskOk \in BOOLEAN :
          \E o \in {UrlHandler(req, tempDir, diskOk)} : Settle(o)
    /\ UNCHANGED <<req, results, errors, totalProcessed, settings>>

\* ---- POST /api/convert-batch ----

\* the settings field: a string that JSON.parse rejects, or the value it yields
BadJson == [t |-> "json", valid |-> FALSE, value |-> Null]
Json(v) == [t |-> "json", valid |-> TRUE, value |-> v]

JsonSettings ==
    [t : {"settings"}, outputFormat : {Undef, Str("png"), Str("gif"), Num(5)},
     quality : {Undef, Num(25)}, width : {Undef, Num(300)}, height : {Undef},
     maintainAspectRatio : {Undef, Bool(FALSE)}, targetSizeKB : {Undef, Num(1)},
     preset : {Undef, Str("instagram"), Str("twitter")}]

SettingsFields == {BadJson, Json(Null)} \cup {Json(v) : v \in JsonSettings}

EmptyForm ==
    [outputFormat |-> Undef, quality |-> Undef, width |-> Undef, height |-> Undef,
     maintainAspectRatio |-> Undef, targetSizeKB |-> Undef, preset |-> Undef]

\* req.files: the uploaded buffers in upload order
FileLists == UNION {[1..n -> Uploads] : n \in 0..MaxFiles}
Files(list) ==
    [k \in 1..Len(list) |->
        [originalname |-> k, buffer |-> list[k], size |-> list[k].length]]

\* lines 366-374: settings taken from the form fields
FieldSettings(b) ==
    [t |-> "settings", outputFormat |-> b.outputFormat,
     quality |-> IF Truthy(b.quality) THEN parseInt(b.quality) ELSE Num(DefaultQuality),
     width |-> IF Truthy(b.width) THEN parseInt(b.width) ELSE Undef,
     height |-> IF Truthy(b.height) THEN parseInt(b.height) ELSE Undef,
     maintainAspectRatio |-> Bool(b.maintainAspectRatio # Str("false")),
     targetSizeKB |-> IF Truthy(b.targetSizeKB) THEN parseInt(b.targetSizeKB) ELSE Undef,
     preset |-> b.preset]

\* lines 357-375: the settings of the request, or the 400 of a parse failure
ParsedSettings(r) ==
    IF Truthy(r.settings)
    THEN (IF r.settings.valid THEN [ok |-> TRUE, value |-> r.settings.value]
          ELSE [ok |-> FALSE, value |-> Null])
    ELSE [ok |-> TRUE, value |-> FieldSettings(r.body)]

\* mutant: only the settings object itself is required
SettingsLackFormat_ObjectOnly(v) == ~Truthy(v)

\* line 377: !settings || !settings.outputFormat
SettingsLackFormat(v) == ~Truthy(v) \/ ~Truthy(v.outputFormat)

\* lines 393-400: convertOptions of one batch item
BatchOptions(st) ==
    [outputFormat |-> ToLowerCase(st.outputFormat),
     quality |-> OrElse(st.quality, Num(DefaultQuality)),
     width |-> st.width,
     height |-> st.height,
     maintainAspectRatio |-> Bool(st.maintainAspectRatio # Bool(FALSE)),
     targetSizeKB |-> st.targetSizeKB]

\* lines 447-455: the entry of a failed item
FailedEntry(file, msg) ==
    [originalFile |-> [name |-> file.originalname, size |-> file.size],
     status |-> "failed", error |-> msg]

\* lines 418-437: the entry of a converted item
SuccessEntry(file, info, c, name, options) ==
    [originalFile |-> [name |-> file.originalname, size |-> info.size,
                       width |-> info.width, height |-> info.height],
     convertedFile |-> [name |-> name, size |-> c.outputBuffer.length,
                        width |-> c.outputBuffer.width, height |-> c.outputBuffer.height],
     compressionRatio |-> Ratio100(info.size, c.outputBuffer.length),
     finalQuality |-> options.quality,
     status |-> "success"]

\* what one item leaves: its entry, the options and call, the file written, and
\* how far it got (for the observation)
ItemOutcome(e, o, c, w, nd, nc, save) ==
    [entry |-> e, opts |-> o, cv |-> c, written |-> w, decodes |-> nd,
     converts |-> nc, save |-> save]

\* mutant: the result is built around the write, a failed write leaves its file
BatchItem_KeepsFailedWrite(file, st, dir, diskOk) ==
    LET info == getImageInfo(file.buffer)
        options == ApplyPreset(BatchOptions(st), st.preset)
        name == FreshName(dir)
        After(c) ==
            IF c.phase = "thrown"
            THEN ItemOutcome(FailedEntry(file, c.error), options, c, {}, 1, 1, "none")
            ELSE IF ~diskOk
            THEN ItemOutcome(FailedEntry(file, "StorageError"), options, c, {name}, 1, 1,
                             "failed")
            ELSE ItemOutcome(SuccessEntry(file, info, c, name, options), options, c,
                             {name}, 1, 1, "ok")
    IN  IF ~info.ok
        THEN ItemOutcome(FailedEntry(file, "DecodeError"), NoOpts, NoCall, {}, 1, 0, "none")
        ELSE IF ~IsString(st.outputFormat)
        THEN ItemOutcome(FailedEntry(file, "TypeError"), NoOpts, NoCall, {}, 1, 0, "none")
        ELSE CHOOSE o \in {After(c) : c \in {convertImage(file.buffer, options)}} : TRUE

\* lines 388-456: one iteration of the loop over req.files
BatchItem(file, st, dir, diskOk) ==
    LET info == getImageInfo(file.buffer)
        options == ApplyPreset(BatchOptions(st), st.preset)
        name == FreshName(dir)
        After(c) ==
            IF c.phase = "thrown"
            THEN ItemOutcome(FailedEntry(file, c.error), options, c, {}, 1, 1, "none")
            ELSE IF ~diskOk
            THEN ItemOutcome(FailedEntry(file, "StorageError"), options, c, {}, 1, 1, "failed")
            ELSE ItemOutcome(SuccessEntry(file, info, c, name, options), options, c,
                             {name}, 1, 1, "ok")
    IN  IF ~info.ok
        THEN ItemOutcome(FailedEntry(file, "DecodeError"), NoOpts, NoCall, {}, 1, 0, "none")
        ELSE IF ~IsString(st.outputFormat)
        THEN ItemOutcome(FailedEntry(file, "TypeError"), NoOpts, NoCall, {}, 1, 0, "none")
        ELSE CHOOSE o \in {After(c) : c \in {convertImage(file.buffer, options)}} : TRUE

ReceiveBatch ==
    /\ CanAccept
    /\ \/ \E l \in FileLists, b \in FormBodies :
             Accept([endpoint |-> "batch", files |-> Files(l), body |-> b,
                     settings |-> Undef], "batch")
       \/ \E l \in FileLists, j \in SettingsFields :
             Accept([endpoint |-> "batch", files |-> Files(l), body |-> EmptyForm,
                     settings |-> j], "batch")

\* lines 350-385: batch-level validation, then the loop starts
BatchValidate ==
    /\ pc = "batch"
    /\ LET p == ParsedSettings(req)
           reject(msg) ==
               /\ res' = ErrorResponse(400, msg)
               /\ pc' = "responded"
               /\ UNCHANGED settings
       IN  IF Len(req.files) = 0 THEN reject("No files provided")
           ELSE IF ~p.ok THEN reject("Invalid settings JSON format")
           ELSE IF SettingsLackFormat(p.value)
           THEN reject("Settings with outputFormat are required")
           ELSE /\ settings' = p.value
                /\ pc' = "batchLoop"
                /\ UNCHANGED res
    /\ results' = <<>>
    /\ errors' = <<>>
    /\ totalProcessed' = 0
    /\ UNCHANGED <<cv, req, opts, tempDir, trace, mtime, clockVars, calls>>

\* the outcome of an item as the loop records it
RecordItem(o) ==
    /\ results' = Append(results, o.entry)
    /\ errors' = IF o.entry.status = "failed" THEN Append(errors, o.entry.error) ELSE errors
    /\ totalProcessed' = IF o.entry.status = "success"
                          THEN totalProcessed + 1 ELSE totalProcessed
    /\ tempDir' = tempDir \cup o.written
    /\ mtime' = Stamp(mtime, tempDir, o.written, now)
    /\ opts' = o.opts
    /\ cv' = o.cv
    /\ trace' = [trace EXCEPT
                   !.written = @ \cup o.written,
                   !.decodes = @ + o.decodes,
                   !.converts = @ + o.converts,
                   !.items = Append(@, [save |-> o.save, cv |-> o.cv])]
    /\ UNCHANGED <<clockVars, calls>>

\* mutant: the success counter is bumped before the item is known to have succeeded
BatchStep_CountsEveryItem ==
    /\ pc = "batchLoop"
    /\ Len(results) < Len(req.files)
    /\ \E diskOk \in BOOLEAN :
          \E o \in {BatchItem(req.files[Len(results) + 1], settings, tempDir, diskOk)} :
             /\ results' = Append(results, o.entry)
             /\ errors' = IF o.entry.status = "failed"
                           THEN Append(errors, o.entry.error) ELSE errors
             /\ totalProcessed' = totalProcessed + 1
             /\ tempDir' = tempDir \cup o.written
             /\ mtime' = Stamp(mtime, tempDir, o.written, now)
             /\ opts' = o.opts
             /\ cv' = o.cv
             /\ trace' = [trace EXCEPT
                            !.written = @ \cup o.written,
                            !.decodes = @ + o.decodes,
                            !.converts = @ + o.converts,
                            !.items = Append(@, [save |-> o.save, cv |-> o.cv])]
    /\ UNCHANGED <<pc, req, res, settings, clockVars, calls>>

\* mutant: no try/catch around the item, a failing item ends the request
BatchStep_NoIsolation ==
    /\ pc = "batchLoop"
    /\ Len(results) < Len(req.files)
    /\ \E diskOk \in BOOLEAN :
          \E o \in {BatchItem(req.files[Len(results) + 1], settings, tempDir, diskOk)} :
             IF o.entry.status = "failed"
             THEN /\ res' = ErrorResponse(500, o.entry.error)
                  /\ pc' = "responded"
                  /\ UNCHANGED <<cv, opts, tempDir, results, errors, totalProcessed, trace>>
                  /\ UNCHANGED <<mtime, clockVars, calls>>
             ELSE /\ RecordItem(o)
                  /\ UNCHANGED <<pc, res>>
    /\ UNCHANGED <<req, settings>>

\* lines 387-457: the next file of req.files is processed
BatchStep ==
    /\ pc = "batchLoop"
    /\ Len(results) < Len(req.files)
    /\ \E diskOk \in BOOLEAN :
          \E o \in {BatchItem(req.files[Len(results) + 1], settings, tempDir, diskOk)} :
             RecordItem(o)
    /\ UNCHANGED <<pc, req, res, settings>>

\* lines 459-467: the report
BatchRespond ==
    /\ pc = "batchLoop"
    /\ Len(results) = Len(req.files)
    /\ res' = [status |-> 200, results |-> results, totalProcessed |-> totalProcessed,
               totalErrors |-> Len(errors), errors |-> errors]
    /\ pc' = "responded"
    /\ UNCHANGED <<cv, req, opts, tempDir, results, errors, totalProcessed, settings, trace>>
    /\ UNCHANGED <<mtime, clockVars, calls>>

\* the response is out; the handler's locals are gone, the store stays
Close ==
    /\ pc = "responded"
    /\ pc' = "idle"
    /\ req' = NoReq
    /\ opts' = NoOpts
    /\ res' = NoRes
    /\ cv' = NoCall
    /\ results' = <<>>
    /\ errors' = <<>>
    /\ totalProcessed' = 0
    /\ settings' = Undef
    /\ trace' = NoTrace
    /\ UNCHANGED <<tempDir, mtime, clockVars, calls>>

Next ==
    \/ ReceiveSingle
    \/ ConvertImageEndpoint
    \/ ReceiveUrl
    \/ ConvertFromUrlEndpoint
    \/ ReceiveBatch
    \/ BatchValidate
    \/ BatchStep
    \/ BatchRespond
    \/ Close

Spec == Init /\ [][Next]_vars

-----------------------------------------------------------------------------
(* Image analysis: POST /api/analyze-image                                 *)

Infinity == [t |-> "Infinity"]

\* a * b on values that are numbers or undefined
JsTimes(a, b) == IF a.t = "number" /\ b.t = "number" THEN Num(a.n * b.n) ELSE NaN

\* a / b on non-negative numbers or undefined: NaN, Infinity, or the exact quotient
JsDivide(a, b) ==
    IF ~(a.t = "number" /\ b.t = "number") THEN NaN
    ELSE IF b.n = 0 THEN (IF a.n = 0 THEN NaN ELSE Infinity)
    ELSE [t |-> "quotient", num |-> a.n, den |-> b.n]

\* v > k for an integer k (false when v is NaN)
JsGreater(v, k) ==
    CASE v.t = "quotient" -> v.num > k * v.den
      [] v.t = "number" -> v.n > k
      [] v.t = "Infinity" -> TRUE
      [] OTHER -> FALSE

\* Number(v.toFixed(2)): a quotient rounded to hundredths; NaN and Infinity stay
ToFixed2(v) ==
    IF v.t = "quotient" THEN [t |-> "hundredths", n |-> RoundDiv(100 * v.num, v.den)]
    ELSE v

\* what sharp(buffer).metadata() reports for width and height
MetaDims == {Undef} \cup {Num(n) : n \in {0, 1, 1000, 1001}}
\* dominant colours sharp(buffer).stats() reports
Dominants == {[r |-> 10, g |-> 200, b |-> 40], [r |-> 255, g |-> 0, b |-> 128]}

\* the buffers sent for analysis: undecodable, or decodable with their metadata,
\* their length, and whether stats() succeeds on them
AnalysisBuffers ==
    {[id |-> "corrupt", decodable |-> FALSE, length |-> 700]}
    \cup
    [id : {"image"}, decodable : {TRUE}, width : MetaDims, height : MetaDims,
     format : {"png", "gif", "jpeg"}, hasAlpha : {Undef, Bool(TRUE), Bool(FALSE)},
     length : {900, 2500000}, statsOk : {TRUE}, dominant : {[r |-> 10, g |-> 200, b |-> 40]}]
    \cup
    [id : {"image"}, decodable : {TRUE}, width : {Num(1000)}, height : {Num(1), Num(1000)},
     format : {"png"}, hasAlpha : {Bool(FALSE)},
     length : {900, 1001, 2001, 3001}, statsOk : BOOLEAN, dominant : Dominants]

\* getImageInfo(buffer) with all its fields (lines 77-91)
ImageInfo(buffer) ==
    IF ~buffer.decodable THEN [ok |-> FALSE, error |-> "Failed to get image info"]
    ELSE [ok |-> TRUE, width |-> buffer.width, height |-> buffer.height,
          format |-> buffer.format, size |-> buffer.length,
          hasAlpha |-> OrElse(buffer.hasAlpha, Bool(FALSE)),
          aspectRatio |-> JsDivide(buffer.width, buffer.height)]

Rgb(r, g, b) == [r |-> r, g |-> g, b |-> b]
Max0(n) == IF n < 0 THEN 0 ELSE n

\* mutant: the variations are not clamped at 0
analyzeImageColors_NoClamp(buffer) ==
    IF ~buffer.statsOk THEN <<"#888888", "#666666", "#444444">>
    ELSE LET d == buffer.dominant
         IN  SubSeq(<<Rgb(d.r, d.g, d.b), Rgb(d.r - 30, d.g, d.b),
                      Rgb(d.r, d.g - 30, d.b)>>, 1, 3)

\* analyzeImageColors(buffer) (lines 93-110): the dominant colour and two
\* variations, or the default palette when stats() fails
analyzeImageColors(buffer) ==
    IF ~buffer.statsOk THEN <<"#888888", "#666666", "#444444">>
    ELSE LET d == buffer.dominant
         IN  SubSeq(<<Rgb(d.r, d.g, d.b), Rgb(Max0(d.r - 30), d.g, d.b),
                      Rgb(d.r, Max0(d.g - 30), d.b)>>, 1, 3)

\* mutant: the pixel-count rule also fires at exactly 1,000,000 pixels
recommendFormat_AtThreshold(info, hasTransparency) ==
    IF Truthy(hasTransparency) THEN "png"
    ELSE IF info.format = "gif" THEN "gif"
    ELSE IF JsGreater(JsTimes(info.width, info.height), 999999) THEN "jpeg"
    ELSE "webp"

\* recommendFormat(info, hasTransparency) (lines 112-117)
recommendFormat(info, hasTransparency) ==
    IF Truthy(hasTransparency) THEN "png"
    ELSE IF info.format = "gif" THEN "gif"
    ELSE IF JsGreater(JsTimes(info.width, info.height), 1000000) THEN "jpeg"
    ELSE "webp"

\* estimateQuality(size, width, height) (lines 119-125)
estimateQuality(size, width, height) ==
    LET pixelDensity == JsDivide(Num(size), JsTimes(width, height))
    IN  IF JsGreater(pixelDensity, 3) THEN 95
        ELSE IF JsGreater(pixelDensity, 2) THEN 85
        ELSE IF JsGreater(pixelDensity, 1) THEN 75
        ELSE 65

\* POST /api/analyze-image (lines 231-269): the response
AnalyzeHandler(r) ==
    LET info == ImageInfo(r.file)
    IN  IF r.file = NoFile THEN ErrorResponse(400, "No file provided")
        ELSE IF ~info.ok THEN ErrorResponse(500, info.error)
        ELSE [status |-> 200,
              colors |-> analyzeImageColors(r.file),
              hasTransparency |-> info.hasAlpha,
              aspectRatio |-> ToFixed2(info.aspectRatio),
              recommendedFormat |-> recommendFormat(info, info.hasAlpha),
              estimatedQuality |-> estimateQuality(info.size, info.width, info.height),
              metadata |-> [width |-> info.width, height |-> info.height,
                            format |-> info.format, size |-> info.size]]

ReceiveAnalyze ==
    /\ pc = "idle"
    /\ \E f \in AnalysisBuffers \cup {NoFile} :
          /\ req' = [endpoint |-> "analyze", file |-> f]
          /\ pc' = "analyze"
    /\ UNCHANGED <<cv, opts, res, tempDir, results, errors, totalProcessed, settings, trace>>
    /\ UNCHANGED <<mtime, clockVars, calls>>

AnalyzeImageEndpoint ==
    /\ pc = "analyze"
    /\ res' = AnalyzeHandler(req)
    /\ pc' = "responded"
    /\ UNCHANGED <<cv, req, opts, tempDir, results, errors, totalProcessed, settings, trace>>
    /\ UNCHANGED <<mtime, clockVars, calls>>

NextAnalyze == ReceiveAnalyze \/ AnalyzeImageEndpoint \/ Close

SpecAnalyze == Init /\ [][NextAnalyze]_vars

-----------------------------------------------------------------------------
(* Claims about image analysis (checked under SpecAnalyze)                 *)

Analysed == pc = "responded" /\ req.endpoint = "analyze" /\ req.file # NoFile

\* the number of pixels the metadata gives, 0 when a dimension is missing
PixelCount(f) ==
    IF f.width.t = "number" /\ f.height.t = "number" THEN f.width.n * f.height.n ELSE 0

\* C18: recommendFormat follows the fixed table in this order, for every
\* combination of alpha flag, source format and dimensions: alpha gives png;
\* otherwise source format gif gives gif; otherwise more than 1,000,000 pixels
\* gives jpeg (exactly 1,000,000 does not); otherwise webp.
C18_RecommendationTable ==
    (Analysed /\ res.status = 200)
        => res.recommendedFormat =
              CASE req.file.hasAlpha = Bool(TRUE) -> "png"
                [] req.file.hasAlpha # Bool(TRUE) /\ req.file.format = "gif" -> "gif"
                [] req.file.hasAlpha # Bool(TRUE) /\ req.file.format # "gif"
                     /\ PixelCount(req.file) > 1000000 -> "jpeg"
                [] OTHER -> "webp"

\* C18 witness: an opaque 1000x1000 PNG, exactly 1,000,000 pixels, was
\* recommended webp
C18_Witness ==
    /\ Analysed
    /\ res.status = 200
    /\ req.file.hasAlpha = Bool(FALSE)
    /\ req.file.format = "png"
    /\ req.file.width = Num(1000) /\ req.file.height = Num(1000)
    /\ res.recommendedFormat = "webp"

\* a channel lowered by 30, not below 0
Lowered(c) == IF c >= 30 THEN c - 30 ELSE 0

\* C21: analyzeImageColors never propagates an error: when statistics extraction
\* fails the analysis still succeeds, with the fixed 3-entry greyscale palette;
\* otherwise the palette has between 1 and 5 colours, the first is the dominant
\* colour and the others are the dominant colour with one channel lowered by 30,
\* clamped at 0.
C21_PaletteAlwaysReturned ==
    (Analysed /\ req.file.decodable)
        => /\ res.status = 200
           /\ Len(res.colors) \in 1..5
           /\ IF ~req.file.statsOk
              THEN res.colors = <<"#888888", "#666666", "#444444">>
              ELSE LET d == req.file.dominant
                   IN  /\ res.colors[1] = [r |-> d.r, g |-> d.g, b |-> d.b]
                       /\ \A k \in 2..Len(res.colors) :
                             \/ res.colors[k] = [r |-> Lowered(d.r), g |-> d.g, b |-> d.b]
                             \/ res.colors[k] = [r |-> d.r, g |-> Lowered(d.g), b |-> d.b]
                             \/ res.colors[k] = [r |-> d.r, g |-> d.g, b |-> Lowered(d.b)]

\* C21 witness: stats() failed on a decodable image and the analysis was answered
\* 200 with the default palette
C21_Witness ==
    /\ Analysed
    /\ req.file.decodable
    /\ ~req.file.statsOk
    /\ res.status = 200
    /\ Len(res.colors) = 3

\* the codec reported zero, or no value, for the width or the height
NoDimension(f) ==
    \/ f.width.t # "number" \/ f.width.n = 0
    \/ f.height.t # "number" \/ f.height.n = 0

IsFinite(v) == v.t \in {"number", "hundredths", "quotient"}

\* C20: analysis fails with a decode error whenever the codec reports zero or no
\* value for the width or the height; no result with an undefined or non-finite
\* aspect ratio or quality estimate is returned with a success status.
C20_NoDimensionFails ==
    (Analysed /\ req.file.decodable)
        => /\ NoDimension(req.file) => res.status = 500
           /\ res.status = 200
                 => /\ IsFinite(res.aspectRatio)
                    /\ res.estimatedQuality \in 0..100

-----------------------------------------------------------------------------
(* The temp store over time: writes, the cleanup timer, process events     *)

MaxTime == 16       \* minutes of process time explored

\* modification times of files an earlier run of the process left in TEMP_DIR
Leftovers == {0 - 11, 0 - 10, 0 - 2}

\* what the file system does to statSync / unlinkSync of a directory entry
FsFaults == {"ok", "stat", "unlink"}

\* mutant: a file is expired as soon as it is 10 minutes old
Expired_AtRetention(times, t, f) == t - times[f] >= TEN_MINUTES

\* line 63: now - stats.mtime.getTime() > TEN_MINUTES
Expired(times, t, f) == t - times[f] > TEN_MINUTES

\* the entry at which the forEach of lines 59-67 throws: its statSync fails, or
\* it is expired and its unlinkSync fails
Aborts(times, t, fault, f) ==
    \/ fault[f] = "stat"
    \/ fault[f] = "unlink" /\ Expired(times, t, f)

\* cleanupTempFiles() at time t (lines 53-71): the entries are visited in
\* directory order, an expired one is unlinked, and the first entry that throws
\* ends the run (the catch of line 68 encloses the whole forEach). The result is
\* the set of files left in the directory.
cleanupTempFiles(dir, times, t, fault) ==
    LET visited(f) == \A g \in dir : Aborts(times, t, fault, g) => f < g
    IN  {f \in dir : ~(visited(f) /\ Expired(times, t, f))}

\* the sweep applied to the store, whatever the file system does to each entry
Sweep ==
    \E fault \in [tempDir -> FsFaults] :
        /\ tempDir' = cleanupTempFiles(tempDir, mtime, now, fault)
        /\ mtime' = [f \in tempDir' |-> mtime[f]]
        /\ lastSweep' =
              [n |-> lastSweep.n + 1, t |-> now, removed |-> tempDir \ tempDir',
               skipped |-> {f \in tempDir' : Expired(mtime, now, f) /\ fault[f] = "ok"}]

requestVars ==
    <<cv, pc, req, opts, res, results, errors, totalProcessed, settings, trace, calls>>

\* the module has been loaded: TEMP_DIR exists, with whatever an earlier run left
\* in it, and the interval is set (lines 20-24, 74)
InitStore ==
    /\ pc = "idle" /\ req = NoReq /\ opts = NoOpts /\ res = NoRes /\ cv = NoCall
    /\ results = <<>> /\ errors = <<>> /\ totalProcessed = 0
    /\ settings = Undef /\ trace = NoTrace /\ calls = NoCalls
    /\ now = 0
    /\ timer = SweepInterval
    /\ proc = "starting"
    /\ lastEvent = NoEvent
    /\ lastSweep = NoSweep
    /\ \/ tempDir = {} /\ mtime = [f \in {} |-> 0]
       \/ \E old \in Leftovers : tempDir = {1} /\ mtime = [f \in {1} |-> old]

\* lines 1110-1147: the server listens and runs the initial cleanup
Listening ==
    /\ proc = "starting"
    /\ Sweep
    /\ proc' = "running"
    /\ UNCHANGED <<now, timer, lastEvent, requestVars>>

\* lines 209-213: a handler saves a converted buffer under a fresh name
SaveToTemp ==
    /\ proc = "running"
    /\ Cardinality(tempDir) < MaxStored
    /\ tempDir' = tempDir \cup {FreshName(tempDir)}
    /\ mtime' = Stamp(mtime, tempDir, {FreshName(tempDir)}, now)
    /\ UNCHANGED <<clockVars, requestVars>>

\* a minute passes; the interval callback runs when it is due
Tick ==
    /\ proc = "running"
    /\ now < timer
    /\ now < MaxTime
    /\ now' = now + 1
    /\ UNCHANGED <<timer, proc, lastEvent, lastSweep, tempDir, mtime, requestVars>>

\* line 74: the interval fires and cleanupTempFiles runs
TimerSweep ==
    /\ proc = "running"
    /\ now = timer
    /\ Sweep
    /\ timer' = timer + SweepInterval
    /\ UNCHANGED <<now, proc, lastEvent, requestVars>>

\* the events whose handler ends the process
FatalEvents == {"SIGTERM", "SIGINT", "uncaughtException"}

\* process.exit(0) for the signals, process.exit(1) for the exception
ExitOf(event) == IF event = "uncaughtException" THEN "exit(1)" ELSE "exit(0)"

\* mutant: the handlers exit without running the cleanup
Shutdown_ExitFirst ==
    /\ proc \in {"starting", "running"}
    /\ \E event \in FatalEvents :
          /\ proc' = ExitOf(event)
          /\ lastEvent' = [event |-> event]
    /\ UNCHANGED <<now, timer, lastSweep, tempDir, mtime, requestVars>>

\* lines 1149-1167: SIGTERM, SIGINT (exit 0) or an uncaught exception (exit 1):
\* cleanupTempFiles, then process.exit
Shutdown ==
    /\ proc \in {"starting", "running"}
    /\ Sweep
    /\ \E event \in FatalEvents :
          /\ proc' = ExitOf(event)
          /\ lastEvent' = [event |-> event]
    /\ UNCHANGED <<now, timer, requestVars>>

\* lines 1169-1171: an unhandled rejection is logged
UnhandledRejection ==
    /\ proc \in {"starting", "running"}
    /\ lastEvent' = [event |-> "unhandledRejection"]
    /\ UNCHANGED <<now, timer, proc, lastSweep, tempDir, mtime, requestVars>>

NextStore ==
    Listening \/ SaveToTemp \/ Tick \/ TimerSweep \/ Shutdown \/ UnhandledRejection

SpecStore == InitStore /\ [][NextStore]_vars

-----------------------------------------------------------------------------
(* Claims about the temp store (checked under SpecStore)                   *)

\* the age of a stored file, in minutes
AgeOf(f) == now - mtime[f]

\* C14: while the process is running with the periodic sweep, every artifact
\* written to the temp store stops being retrievable at most 10 minutes after
\* it was created: no artifact written in this run is in the served directory
\* at an age above 10 minutes.
C14_GoneAfterTenMinutes ==
    proc = "running"
        => \A f \in tempDir : mtime[f] >= 0 => AgeOf(f) <= 10

\* C15: no invocation of the sweep (timer, startup, signal or uncaught-exception
\* handler) deletes a file whose last modification is 10 minutes old or less:
\* every step that removes a file from the store removes one older than 10
\* minutes, whatever writes and sweeps came before.
C15_SweepSparesYoungFiles ==
    [][\A f \in tempDir : f \notin tempDir' => now - mtime[f] > 10]_vars

\* C15 witness: the interval has fired at minute 10 and a file written at
\* minute 0, then exactly 10 minutes old, is still in the store, next to one
\* written later
C15_Witness ==
    /\ proc = "running"
    /\ now = 10
    /\ timer = 15
    /\ \E f, g \in tempDir : mtime[f] = 0 /\ mtime[g] = 7

-----------------------------------------------------------------------------
(* Claims about the endpoints (checked under Spec)                         *)

Absent(v) == v \in {Undef, Str("")}

\* the request carries no outputFormat, in the body or in the settings blob
NoOutputFormat ==
    CASE req.endpoint \in {"single", "url"} -> Absent(req.body.outputFormat)
      [] req.endpoint = "batch" ->
            IF req.settings = Undef THEN Absent(req.body.outputFormat)
            ELSE /\ req.settings.valid
                 /\ req.settings.value # Null
                 /\ Absent(req.settings.value.outputFormat)
      [] OTHER -> FALSE

\* the handler did no work on the request: nothing decoded, converted or written
NothingProcessed ==
    /\ trace.decodes = 0
    /\ trace.converts = 0
    /\ trace.written = {}
    /\ tempDir = trace.storeBefore
    /\ cv = NoCall

\* C1: on the single, batch and URL endpoints a request without outputFormat is
\* answered 400, and on that path convertImage is not invoked, no image is
\* decoded and no artifact is written.
C1_MissingFormatRejected ==
    NoOutputFormat
        => /\ pc # "batchLoop"
           /\ NothingProcessed
           /\ pc = "responded" => res.status = 400

\* C1 witness: a batch with files and no outputFormat was answered, the store
\* holding an earlier artifact
C1_Witness ==
    /\ pc = "responded"
    /\ req.endpoint = "batch"
    /\ Len(req.files) = 2
    /\ NoOutputFormat
    /\ res.status = 400
    /\ tempDir # {}

BatchValidated == req.endpoint = "batch" /\ settings # Undef

CountStatus(seq, st) == Cardinality({i \in 1..Len(seq) : seq[i].status = st})

\* C2: for a batch of N files that passed batch-level validation the report has
\* exactly N entries, entry i describes input file i, totalProcessed is the number
\* of 'success' entries, totalErrors the number of 'failed' entries, and the two
\* add up to N.
C2_BatchReport ==
    (BatchValidated /\ pc = "responded")
        => /\ res.status = 200
           /\ Len(res.results) = Len(req.files)
           /\ \A i \in 1..Len(req.files) :
                 /\ res.results[i].originalFile.name = req.files[i].originalname
                 /\ res.results[i].status \in {"success", "failed"}
           /\ res.totalProcessed = CountStatus(res.results, "success")
           /\ res.totalErrors = CountStatus(res.results, "failed")
           /\ res.totalProcessed = Len(req.files) - res.totalErrors

\* C2 witness: a report over two files, the first failed and the second converted
C2_Witness ==
    /\ BatchValidated
    /\ pc = "responded"
    /\ Len(req.files) = 2
    /\ res.results[1].status = "failed"
    /\ res.results[2].status = "success"
    /\ res.totalProcessed = 1
    /\ res.totalErrors = 1

\* C3: a failing item never aborts the batch: once validation has passed every
\* file is processed and recorded, and two items with the same bytes get the same
\* status whatever happened to the items before them, unless the store refused
\* the write of one of them.
C3_ItemsIsolated ==
    BatchValidated
        => /\ pc = "responded"
                 => (Len(results) = Len(req.files) /\ trace.decodes = Len(req.files))
           /\ \A j, k \in 1..Len(results) :
                 (/\ req.files[j].buffer = req.files[k].buffer
                  /\ trace.items[j].save # "failed"
                  /\ trace.items[k].save # "failed")
                     => results[j].status = results[k].status
           /\ \A j \in 1..Len(results) :
                 (results[j].status = "failed" /\ trace.items[j].save # "failed")
                     => \/ ~req.files[j].buffer.decodable
                        \/ trace.items[j].cv = NoCall
                        \/ trace.items[j].cv.phase = "thrown"

\* C3 witness: the first item failed to decode and the one after it was converted
C3_Witness ==
    /\ BatchValidated
    /\ Len(results) = 2
    /\ ~req.files[1].buffer.decodable
    /\ results[1].status = "failed"
    /\ results[2].status = "success"

\* the request names an output format that no encoder case accepts
UnsupportedOutputFormat ==
    LET f == CASE req.endpoint \in {"single", "url"} -> req.body.outputFormat
               [] req.endpoint = "batch" /\ req.settings = Undef -> req.body.outputFormat
               [] req.endpoint = "batch" /\ req.settings # Undef ->
                     IF req.settings.valid /\ req.settings.value # Null
                     THEN req.settings.value.outputFormat ELSE Undef
               [] OTHER -> Undef
    IN  f.t = "string" /\ f.s # "" /\ LowerOf(f.s) \notin AcceptedLabels

\* C4: a conversion request whose outputFormat is present but unsupported is
\* rejected with 400 before any processing: nothing is decoded, no item is
\* processed, nothing is written.
C4_UnsupportedFormatRejected ==
    UnsupportedOutputFormat
        => /\ pc # "batchLoop"
           /\ trace.decodes = 0
           /\ trace.written = {}
           /\ pc = "responded" => res.status = 400

\* C6: the finalQuality reported for a successful conversion is the quality of the
\* encode that produced the returned buffer.
C6_FinalQualityIsLastEncode ==
    /\ (pc = "responded" /\ req.endpoint \in {"single", "url"} /\ res.status = 200)
          => res.finalQuality = Num(cv.outputBuffer.quality)
    /\ (req.endpoint = "batch")
          => \A j \in 1..Len(results) :
                results[j].status = "success"
                    => results[j].finalQuality = Num(trace.items[j].cv.outputBuffer.quality)

\* the preset the request names
PresetOfReq ==
    CASE req.endpoint \in {"single", "url"} -> req.body.preset
      [] req.endpoint = "batch" /\ req.settings = Undef -> req.body.preset
      [] req.endpoint = "batch" /\ req.settings # Undef ->
            IF req.settings.valid /\ req.settings.value # Null
            THEN req.settings.value.preset ELSE Undef
      [] OTHER -> Undef

\* the ten presets and their pairs, as the claim lists them
C10_Table ==
    [n \in {"square-small", "square-large", "portrait-small", "portrait-large",
            "landscape-small", "landscape-large", "facebook", "instagram",
            "twitter", "linkedin"} |->
        CASE n = "square-small" -> <<512, 512>>
          [] n = "square-large" -> <<1024, 1024>>
          [] n = "portrait-small" -> <<512, 768>>
          [] n = "portrait-large" -> <<768, 1024>>
          [] n = "landscape-small" -> <<768, 512>>
          [] n = "landscape-large" -> <<1024, 768>>
          [] n = "facebook" -> <<1200, 630>>
          [] n = "instagram" -> <<1080, 1080>>
          [] n = "twitter" -> <<1200, 675>>
          [] n = "linkedin" -> <<1200, 627>>]

\* the options convertImage would have been called with had the request named
\* no preset
OptionsWithoutPreset ==
    CASE req.endpoint = "single" ->
            SingleHandler([req EXCEPT !.body.preset = Undef], {}, TRUE).cv.options
      [] req.endpoint = "url" ->
            UrlHandler([req EXCEPT !.body.preset = Undef], {}, TRUE).cv.options
      [] req.endpoint = "batch" ->
            BatchItem(req.files[Len(results)], [settings EXCEPT !.preset = Undef],
                      {}, TRUE).cv.options

\* C10: on each of the three endpoints a request naming one of the ten presets is
\* converted with the preset's width and height whatever width/height it
\* supplied, and with every other option as it would be without the preset.
C10_PresetOverrides ==
    (/\ cv # NoCall
     /\ PresetOfReq.t = "string"
     /\ PresetOfReq.s \in DOMAIN C10_Table)
        => /\ cv.options.width = Num(C10_Table[PresetOfReq.s][1])
           /\ cv.options.height = Num(C10_Table[PresetOfReq.s][2])
           /\ cv.options.outputFormat = OptionsWithoutPreset.outputFormat
           /\ cv.options.quality = OptionsWithoutPreset.quality
           /\ cv.options.maintainAspectRatio = OptionsWithoutPreset.maintainAspectRatio
           /\ cv.options.targetSizeKB = OptionsWithoutPreset.targetSizeKB

\* C10 witness: a single conversion naming instagram and supplying width 300 was
\* converted in a 1080x1080 box
C10_Witness ==
    /\ pc = "responded"
    /\ req.endpoint = "single"
    /\ req.body.preset = Str("instagram")
    /\ req.body.width = Digits(<<3, 0, 0>>)
    /\ res.status = 200
    /\ cv.options.width = Num(1080)
    /\ cv.options.height = Num(1080)

\* the request names a preset that is not one of the ten keys of the table
UnknownPresetNamed ==
    /\ PresetOfReq.t = "string"
    /\ PresetOfReq.s # ""
    /\ PresetOfReq.s \notin DOMAIN C10_Table

\* C11: for every preset name that is not one of the ten keys of the table,
\* names inherited from Object.prototype such as constructor or toString
\* included, preset resolution is a no-op: the conversion runs with exactly the
\* width and height the request supplied (absent if it supplied none), and the
\* request is answered as it would be without the preset.
C11_UnknownPresetIgnored ==
    (cv # NoCall /\ UnknownPresetNamed)
        => /\ cv.options.width = OptionsWithoutPreset.width
           /\ cv.options.height = OptionsWithoutPreset.height
           /\ (pc = "responded" /\ req.endpoint = "single")
                 => res = SingleHandler([req EXCEPT !.body.preset = Undef],
                                        trace.storeBefore, res.status = 200).res

\* the URL request got as far as the download
DownloadAttempted ==
    /\ req.endpoint = "url"
    /\ Truthy(req.imageUrl)
    /\ Truthy(req.body.outputFormat)

\* C16: on the URL endpoint a failed download (unreachable host, timeout, response
\* over the size cap) is answered with a 400 fetch error, not the 500 of an
\* internal error; convertImage is not invoked and no artifact is written.
C16_FetchFailureRejected ==
    (pc = "responded" /\ DownloadAttempted /\ req.remote = Unreachable)
        => /\ res.status = 400
           /\ res.error = "Failed to download image from URL"
           /\ cv = NoCall
           /\ trace.converts = 0
           /\ trace.decodes = 0
           /\ trace.written = {}
           /\ tempDir = trace.storeBefore

\* C16 witness: a failed download was answered while the store held an earlier
\* artifact
C16_Witness ==
    /\ pc = "responded"
    /\ DownloadAttempted
    /\ req.remote = Unreachable
    /\ res.status = 400
    /\ tempDir # {}

\* the MIME type under which a file of a decoded format is uploaded
MimeTypeOf(format) ==
    CASE format = "jpeg" -> "image/jpeg"
      [] format = "png" -> "image/png"
      [] format = "webp" -> "image/webp"
      [] format = "gif" -> "image/gif"
      [] format = "bmp" -> "image/bmp"
      [] format = "tiff" -> "image/tiff"
      [] format = "svg" -> "image/svg+xml"
      [] format = "ico" -> "image/x-icon"
      [] format = "avif" -> "image/avif"
      [] format = "ppm" -> "image/x-portable-pixmap"
      [] OTHER -> "application/octet-stream"

\* the URL request fetched bytes that decode as an image
FetchedAndDecoded ==
    /\ DownloadAttempted
    /\ req.remote # Unreachable
    /\ req.remote.decodable

\* C17: the URL endpoint accepts a fetched image exactly when its decoded format
\* is one of the accepted input types of the upload surface: a format the upload
\* filter accepts is not rejected, and every other format is rejected with a 400
\* before conversion.
C17_UrlAcceptsUploadTypes ==
    (pc = "responded" /\ FetchedAndDecoded)
        => IF fileFilter(MimeTypeOf(req.remote.format))
           THEN ~(res.status = 400 /\ res.error = "Unsupported image format")
           ELSE /\ res.status = 400
                /\ res.error = "Unsupported image format"
                /\ cv = NoCall
                /\ trace.written = {}

\* the items of the running batch request reported as converted
Succeeded == {j \in 1..Len(results) : results[j].status = "success"}

-----------------------------------------------------------------------------
(* Claims about process events and the sweep (checked under SpecStore)     *)

Exited == {"exit(0)", "exit(1)"}

\* C23: on SIGTERM, SIGINT or an uncaught exception the sweep runs once and
\* completes before the process exits, with status 0 for the signals and 1 for
\* the exception; an unhandled promise rejection is only logged: it leads
\* neither to an exit nor to a sweep.
C23_ProcessLifecycle ==
    [][/\ (proc' # proc /\ proc' \in Exited)
             => /\ lastEvent'.event \in {"SIGTERM", "SIGINT", "uncaughtException"}
                /\ lastEvent'.event \in {"SIGTERM", "SIGINT"} => proc' = "exit(0)"
                /\ lastEvent'.event = "uncaughtException" => proc' = "exit(1)"
                /\ lastSweep'.n = lastSweep.n + 1
                /\ lastSweep'.t = now
                /\ lastSweep'.removed = tempDir \ tempDir'
       /\ (lastEvent' # lastEvent /\ lastEvent'.event # "unhandledRejection")
             => proc' \in Exited
       /\ (lastEvent' # lastEvent /\ lastEvent'.event = "unhandledRejection")
             => /\ proc' = proc
                /\ lastSweep' = lastSweep
                /\ tempDir' = tempDir]_vars

\* C23 witness: an uncaught exception ended the process with status 1, some time
\* after start, and the sweep that ran in its handler removed a file
C23_Witness ==
    /\ proc = "exit(1)"
    /\ lastEvent.event = "uncaughtException"
    /\ lastSweep.t = now
    /\ lastSweep.removed # {}
    /\ now > 0

\* C25: within one run of the sweep a failure to stat or delete one entry does
\* not keep the other expired files from being deleted: after every sweep, every
\* expired file whose own stat and unlink succeed has been removed.
C25_SweepSkipsOnlyFailingEntries == lastSweep.skipped = {}

-----------------------------------------------------------------------------
(* Batch requests side by side: each handler call suspends at its awaits   *)

Handlers == 2       \* batch requests of a run, numbered in order of arrival

\* what the concurrent requests carry: up to MaxFiles decodable uploads each
ConcurrentUpload == CHOOSE i \in Uploads : i.id = "small"
ConcurrentLists == {[k \in 1..n |-> ConcurrentUpload] : n \in 0..MaxFiles}
ConcurrentSettings ==
    {BadJson} \cup {Json(v) : v \in {j \in JsonSettings :
                                       /\ j.outputFormat \in {Str("png"), Str("gif")}
                                       /\ j.quality = Undef /\ j.width = Undef
                                       /\ j.maintainAspectRatio = Undef
                                       /\ j.targetSizeKB = Undef /\ j.preset = Undef}}

\* req.files of the request handler h serves: the names tell the requests apart
FilesOf(h, list) ==
    [k \in 1..Len(list) |->
        [originalname |-> <<h, k>>, buffer |-> list[k], size |-> list[k].length]]

NoEntry == [status |-> "none"]

\* a handler call: its position, its request and the locals of lines 383-385
IdleCall ==
    [pc |-> "idle", files |-> <<>>, settings |-> Undef, results |-> <<>>,
     errors |-> <<>>, totalProcessed |-> 0, started |-> 0, pending |-> NoEntry,
     res |-> NoRes]

\* mutant: results, errors and totalProcessed live outside the handler, one set
\* for all requests
PushResult_SharedArrays(cs, h, e) ==
    [g \in DOMAIN cs |->
        IF cs[g].pc = "idle" THEN cs[g]
        ELSE [cs[g] EXCEPT
                !.results = Append(@, e),
                !.errors = IF e.status = "failed" THEN Append(@, e.error) ELSE @,
                !.totalProcessed = IF e.status = "success" THEN @ + 1 ELSE @]]

\* lines 439-440, 445-455: results.push, errors.push, totalProcessed++ on the
\* arrays of this call
PushResult(cs, h, e) ==
    [cs EXCEPT
       ![h].results = Append(@, e),
       ![h].errors = IF e.status = "failed" THEN Append(@, e.error) ELSE @,
       ![h].totalProcessed = IF e.status = "success" THEN @ + 1 ELSE @]

InitConcurrent ==
    /\ pc = "idle" /\ req = NoReq /\ opts = NoOpts /\ res = NoRes /\ cv = NoCall
    /\ results = <<>> /\ errors = <<>> /\ totalProcessed = 0
    /\ settings = Undef /\ trace = NoTrace
    /\ StoreAtRest
    /\ tempDir = {}
    /\ calls = [h \in 1..Handlers |-> IdleCall]

singleVars == <<cv, pc, req, opts, res, results, errors, totalProcessed, settings, trace>>

\* lines 459-467: the report
Report(c) ==
    [status |-> 200, results |-> c.results, totalProcessed |-> c.totalProcessed,
     totalErrors |-> Len(c.errors), errors |-> c.errors]

\* lines 387-391 and 459-467, run without suspension: the loop takes the next
\* file up to its first await, or is over and the report is sent
Continue(c) ==
    IF c.started < Len(c.files)
    THEN [c EXCEPT !.started = @ + 1, !.pc = "item"]
    ELSE [c EXCEPT !.res = Report(c), !.pc = "responded"]

\* lines 347-391: a batch request arrives; validation, the three locals and the
\* start of the first item, all before the first await
BatchArrive(h) ==
    /\ calls[h].pc = "idle"
    /\ \A g \in 1..(h - 1) : calls[g].pc # "idle"
    /\ \E l \in ConcurrentLists, j \in ConcurrentSettings :
          LET r == [endpoint |-> "batch", files |-> FilesOf(h, l), body |-> EmptyForm,
                    settings |-> j]
              p == ParsedSettings(r)
              reject(msg) == [IdleCall EXCEPT !.pc = "responded",
                                              !.res = ErrorResponse(400, msg)]
          IN  calls' = [calls EXCEPT ![h] =
                  IF Len(r.files) = 0 THEN reject("No files provided")
                  ELSE IF ~p.ok THEN reject("Invalid settings JSON format")
                  ELSE IF SettingsLackFormat(p.value)
                  THEN reject("Settings with outputFormat are required")
                  ELSE Continue([IdleCall EXCEPT !.files = r.files,
                                                 !.settings = p.value])]
    /\ UNCHANGED <<tempDir, mtime, clockVars, singleVars>>

\* lines 391-415: the awaits of the item, the last one writing to the shared store
ItemWork(h) ==
    /\ calls[h].pc = "item"
    /\ \E diskOk \in BOOLEAN :
          \E o \in {BatchItem(calls[h].files[calls[h].started], calls[h].settings,
                              tempDir, diskOk)} :
             /\ tempDir' = tempDir \cup o.written
             /\ mtime' = Stamp(mtime, tempDir, o.written, now)
             /\ calls' = [calls EXCEPT ![h].pending = o.entry, ![h].pc = "settled"]
    /\ UNCHANGED <<clockVars, singleVars>>

\* lines 416-467: the continuation records the item, or the catch does, and the
\* loop goes on
ItemRecord(h) ==
    /\ calls[h].pc = "settled"
    /\ \E cs \in {PushResult(calls, h, calls[h].pending)} :
          calls' = [cs EXCEPT ![h] = Continue([cs[h] EXCEPT !.pending = NoEntry])]
    /\ UNCHANGED <<tempDir, mtime, clockVars, singleVars>>

NextConcurrent ==
    \E h \in 1..Handlers :
        \/ BatchArrive(h)
        \/ ItemWork(h)
        \/ ItemRecord(h)

SpecConcurrent == InitConcurrent /\ [][NextConcurrent]_vars

\* the entries of a call's results with a given status
WithStatus(c, st) == {j \in 1..Len(c.results) : c.results[j].status = st}

\* the entries recorded so far are the call's own files, in input order
OwnItemsInOrder(h) ==
    LET c == calls[h]
    IN  /\ Len(c.results) <= Len(c.files)
        /\ \A j \in 1..Len(c.results) :
               c.results[j].originalFile.name = c.files[j].originalname

\* C22: within one batch request the items are processed strictly sequentially
\* in input order (item i+1 is not started before item i has recorded its
\* result), and under any interleaving of concurrent requests at their
\* suspension points each batch report contains exactly that request's own
\* items, with counts computed only from them.
C22_SequentialAndIsolated ==
    \A h \in DOMAIN calls :
        LET c == calls[h]
        IN  /\ c.started = IF c.pc \in {"item", "settled"}
                           THEN Len(c.results) + 1 ELSE Len(c.results)
            /\ c.pc = "item" => c.pending = NoEntry
            /\ OwnItemsInOrder(h)
            /\ c.totalProcessed = Cardinality(WithStatus(c, "success"))
            /\ Len(c.errors) = Cardinality(WithStatus(c, "failed"))
            /\ (c.pc = "responded" /\ c.res.status = 200)
                  => /\ c.res.results = c.results
                     /\ Len(c.res.results) = Len(c.files)
                     /\ c.res.totalProcessed = Cardinality(WithStatus(c, "success"))
                     /\ c.res.totalErrors = Cardinality(WithStatus(c, "failed"))
                     /\ c.res.totalProcessed + c.res.totalErrors = Len(c.files)

\* C22 witness: two batch requests were in flight together, the second recorded an
\* item while the first was between two of its own, and the first was then
\* reported with its two items, one converted and one failed
C22_Witness ==
    /\ DOMAIN calls = 1..Handlers
    /\ calls[1].pc = "responded"
    /\ calls[1].res.status = 200
    /\ Len(calls[1].res.results) = 2
    /\ calls[1].res.totalProcessed = 1
    /\ calls[1].res.totalErrors = 1
    /\ calls[2].pc = "settled"
    /\ Len(calls[2].results) = 1
    /\ calls[2].results[1].status = "success"
    /\ calls[1].res.results[1].status = "failed"
    /\ calls[1].res.results[2].status = "success"
    /\ calls[2].results[1].convertedFile.name < calls[1].res.results[2].convertedFile.name

====
